---------------------------- MODULE Spec2Model ----------------------------
(***************************************************************************)
(* cJSON (red-black tree backed containers).  The heap is a function from  *)
(* node addresses to cJSON structs; every routine of the tree engine and   *)
(* of the container API is an operator over that heap, written statement   *)
(* by statement after src/cJSON.c.  A NULL dereference ends the run        *)
(* (pc = "crashed"); a container that links freed memory is not used any   *)
(* further (pc = "corrupt").                                               *)
(***************************************************************************)
EXTENDS Integers, Sequences, FiniteSets, TLC

\* ------------------------------------------------------------------ bounds
MaxNodes == 5
DeepNodes == 12
RefNodes == 5
TreeNodes == 9

\* MaxNodes: addresses the allocator can hand out (DeepNodes: in the runs on
\* one larger array, SpecDeep).  A container's count field is capped by the
\* number of addresses left for its members, and the count passed to
\* cJSON_Create*Array leaves one address for a later item.
\* RefNodes: the addresses in the runs on several containers, SpecRef.

NULL == 0
Nodes == 1..MaxNodes

\* C strings as sequences of character codes; <<0>> stands for (char* )NULL.
NullStr == <<0>>
Keys == { <<98>>, <<65>>, <<99>>, <<97>> }   \* "b" "A" "c" "a"
Probes == Keys \cup { <<66>>, <<100>> }    \* and "B" "d"

cJSON_Array == "Array"
cJSON_Object == "Object"
cJSON_NULL == "Null"
cJSON_Number == "Number"
cJSON_String == "String"

VARIABLES mem, obj, alloc, freed, sfreed, attached, pc, op
vars == <<mem, obj, alloc, freed, sfreed, attached, pc, op>>

\* ------------------------------------------------------------------ structs
cJSON_New_Item ==
  [ type |-> "Zero", root |-> NULL, first |-> NULL, last |-> NULL, count |-> 0,
    left |-> NULL, right |-> NULL, parent |-> NULL, isred |-> 0,
    string |-> NullStr, index |-> 0, valuestring |-> NULL, isreference |-> FALSE ]

Ok(m) == [m |-> m, ok |-> TRUE]
Crash(m) == [m |-> m, ok |-> FALSE]

\* ------------------------------------------------------------------ strings
tolower(c) == IF c >= 65 /\ c <= 90 THEN c + 32 ELSE c

CharAt(s, i) == IF i <= Len(s) THEN s[i] ELSE 0

RECURSIVE strcasecmp_loop(_, _, _)
strcasecmp_loop(s1, s2, i) ==
  IF tolower(CharAt(s1, i)) = tolower(CharAt(s2, i))
  THEN IF CharAt(s1, i) = 0 THEN 0 ELSE strcasecmp_loop(s1, s2, i + 1)
  ELSE tolower(CharAt(s1, i)) - tolower(CharAt(s2, i))

RECURSIVE strcmp_loop(_, _, _)
strcmp_loop(s1, s2, i) ==
  IF CharAt(s1, i) = CharAt(s2, i)
  THEN IF CharAt(s1, i) = 0 THEN 0 ELSE strcmp_loop(s1, s2, i + 1)
  ELSE CharAt(s1, i) - CharAt(s2, i)

\* cJSON_strcasecmp without the tolower() calls.
cJSON_strcasecmp_sensitive(s1, s2) ==
  IF s1 = NullStr THEN (IF s1 = s2 THEN 0 ELSE 1)
  ELSE IF s2 = NullStr THEN 1
  ELSE strcmp_loop(s1, s2, 1)

cJSON_strcasecmp(s1, s2) ==
  IF s1 = NullStr THEN (IF s1 = s2 THEN 0 ELSE 1)
  ELSE IF s2 = NullStr THEN 1
  ELSE strcasecmp_loop(s1, s2, 1)

\* ------------------------------------------------------------------ tree helpers
set_parent(m, parent, node) == [m EXCEPT ![node].parent = parent]

set_child(m, child, node, isleft) ==
  IF isleft THEN [m EXCEPT ![node].left = child]
  ELSE [m EXCEPT ![node].right = child]

RECURSIVE child_first(_, _)
child_first(m, node) ==
  IF m[node].left # NULL THEN child_first(m, m[node].left) ELSE node

RECURSIVE child_last(_, _)
child_last(m, node) ==
  IF m[node].right # NULL THEN child_last(m, m[node].right) ELSE node

obj_first(m, o) ==
  IF m[o].type # cJSON_Object /\ m[o].type # cJSON_Array THEN NULL
  ELSE m[o].first

\* A climb that leaves through left links instead of right links.
RECURSIVE child_next_up_left(_, _)
child_next_up_left(m, node) ==
  LET parent == m[node].parent IN
  IF parent # NULL /\ m[parent].left = node THEN child_next_up_left(m, parent)
  ELSE parent

RECURSIVE child_next_up(_, _)
child_next_up(m, node) ==
  LET parent == m[node].parent IN
  IF parent # NULL /\ m[parent].right = node THEN child_next_up(m, parent)
  ELSE parent

child_next(m, node) ==
  IF m[node].right # NULL THEN child_first(m, m[node].right)
  ELSE child_next_up(m, node)

RECURSIVE child_prev_up(_, _)
child_prev_up(m, node) ==
  LET parent == m[node].parent IN
  IF parent # NULL /\ m[parent].left = node THEN child_prev_up(m, parent)
  ELSE parent

child_prev(m, node) ==
  IF m[node].left # NULL THEN child_last(m, m[node].left)
  ELSE child_prev_up(m, node)

\* The nodes reachable from n through left and right links; the nodes under
\* the root of a container.
RECURSIVE Subtree(_, _)
Subtree(m, n) ==
  IF n = NULL THEN {}
  ELSE {n} \cup Subtree(m, m[n].left) \cup Subtree(m, m[n].right)

Linked(m, tree) == Subtree(m, m[tree].root)

\* lookup_res with the two index tests of lines 138 and 140 exchanged.
lookup_res_exchanged(m, key, index, tree, object) ==
  IF m[tree].type = cJSON_Object THEN cJSON_strcasecmp(key, m[object].string)
  ELSE IF m[object].index < index THEN 1
  ELSE IF m[object].index > index THEN -1
  ELSE 0

\* One comparison of tree_lookup's loop: the sign of res.
lookup_res(m, key, index, tree, object) ==
  IF m[tree].type = cJSON_Object THEN cJSON_strcasecmp(key, m[object].string)
  ELSE IF m[object].index > index THEN 1
  ELSE IF m[object].index < index THEN -1
  ELSE 0

RECURSIVE tree_lookup_loop(_, _, _, _, _, _, _)
tree_lookup_loop(m, key, index, tree, object, parent, isleft) ==
  IF object = NULL THEN [item |-> NULL, parent |-> parent, isleft |-> isleft]
  ELSE LET res == lookup_res(m, key, index, tree, object) IN
       IF res = 0 THEN [item |-> object, parent |-> parent, isleft |-> isleft]
       ELSE IF res > 0
       THEN tree_lookup_loop(m, key, index, tree, m[object].left, object, TRUE)
       ELSE tree_lookup_loop(m, key, index, tree, m[object].right, object, FALSE)

tree_lookup(m, key, index, tree) ==
  IF m[tree].type # cJSON_Object /\ m[tree].type # cJSON_Array
  THEN [item |-> NULL, parent |-> NULL, isleft |-> FALSE]
  ELSE tree_lookup_loop(m, key, index, tree, m[tree].root, NULL, FALSE)

\* ------------------------------------------------------------------ rotations
\* if(parent) { parent->left or ->right = q } else tree->root = q
rotate_top(m, p, q, parent, tree) ==
  IF parent # NULL
  THEN (IF m[parent].left = p THEN [m EXCEPT ![parent].left = q]
        ELSE [m EXCEPT ![parent].right = q])
  ELSE [m EXCEPT ![tree].root = q]

\* rotate_left_inner without the set_parent of lines 174-175.
rotate_left_inner_unparented(m, p, q, b) ==
  [m EXCEPT ![p].right = b, ![q].left = p]

\* p->right = q->left; if(p->right) set_parent(p, p->right); q->left = p
rotate_left_inner(m, p, q, b) ==
  IF b # NULL THEN [m EXCEPT ![p].right = b, ![b].parent = p, ![q].left = p]
  ELSE [m EXCEPT ![p].right = b, ![q].left = p]

\* p->left = q->right; if(p->left) set_parent(p, p->left); q->right = p
rotate_right_inner(m, p, q, b) ==
  IF b # NULL THEN [m EXCEPT ![p].left = b, ![b].parent = p, ![q].right = p]
  ELSE [m EXCEPT ![p].left = b, ![q].right = p]

tree_rotate_left(m, node, tree) ==
  IF m[node].right = NULL THEN Crash(m)
  ELSE Ok(rotate_left_inner(
            set_parent(set_parent(rotate_top(m, node, m[node].right, m[node].parent, tree),
                                  m[node].parent, m[node].right),
                       m[node].right, node),
            node, m[node].right, m[m[node].right].left))

tree_rotate_right(m, node, tree) ==
  IF m[node].left = NULL THEN Crash(m)
  ELSE Ok(rotate_right_inner(
            set_parent(set_parent(rotate_top(m, node, m[node].left, m[node].parent, tree),
                                  m[node].parent, m[node].left),
                       m[node].left, node),
            node, m[node].left, m[m[node].left].right))

\* ------------------------------------------------------------------ insert
WithNode(r, node) == [m |-> r.m, ok |-> r.ok, node |-> node]

\* parent = node->parent; parent->isred = 0; grandpa->isred = 1; rotate grandpa
\* (lines 244-246, 262-264).
insert_outer(m, node, grandpa, tree, leftside) ==
  IF m[node].parent = NULL THEN [m |-> m, ok |-> FALSE, node |-> node]
  ELSE IF leftside
  THEN WithNode(tree_rotate_right(
                  [m EXCEPT ![m[node].parent].isred = 0, ![grandpa].isred = 1],
                  grandpa, tree), node)
  ELSE WithNode(tree_rotate_left(
                  [m EXCEPT ![m[node].parent].isred = 0, ![grandpa].isred = 1],
                  grandpa, tree), node)

\* After the inner rotation: node = parent (lines 241, 259).
insert_inner_done(r, parent, grandpa, tree, leftside) ==
  IF ~r.ok THEN [m |-> r.m, ok |-> FALSE, node |-> parent]
  ELSE insert_outer(r.m, parent, grandpa, tree, leftside)

\* The uncle-is-black branch of one side (lines 239-246, 257-264).
\* leftside = (parent == grandpa->left).
insert_rotate(m, node, parent, grandpa, tree, leftside) ==
  IF leftside
  THEN (IF node = m[parent].right
        THEN insert_inner_done(tree_rotate_left(m, parent, tree),
                               parent, grandpa, tree, leftside)
        ELSE insert_outer(m, node, grandpa, tree, leftside))
  ELSE (IF node = m[parent].left
        THEN insert_inner_done(tree_rotate_right(m, parent, tree),
                               parent, grandpa, tree, leftside)
        ELSE insert_outer(m, node, grandpa, tree, leftside))

Uncle(m, parent, grandpa) ==
  IF parent = m[grandpa].left THEN m[grandpa].right ELSE m[grandpa].left

RECURSIVE insert_fixup(_, _, _)
RECURSIVE insert_again(_, _)

\* while((parent = node->parent) && parent->isred & 1) { ... }  (lines 228-267)
insert_fixup(m, node, tree) ==
  IF m[node].parent = NULL \/ m[m[node].parent].isred # 1 THEN Ok(m)
  ELSE IF m[m[node].parent].parent = NULL THEN Crash(m)
  ELSE IF /\ Uncle(m, m[node].parent, m[m[node].parent].parent) # NULL
          /\ m[Uncle(m, m[node].parent, m[m[node].parent].parent)].isred = 1
  THEN insert_fixup(
         [m EXCEPT ![m[node].parent].isred = 0,
                   ![Uncle(m, m[node].parent, m[m[node].parent].parent)].isred = 0,
                   ![m[m[node].parent].parent].isred = 1],
         m[m[node].parent].parent, tree)
  ELSE insert_again(
         insert_rotate(m, node, m[node].parent, m[m[node].parent].parent, tree,
                       m[node].parent = m[m[m[node].parent].parent].left),
         tree)

insert_again(r, tree) ==
  IF ~r.ok THEN Crash(r.m) ELSE insert_fixup(r.m, r.node, tree)

\* node->left = NULL; node->right = NULL; node->isred = 1; set_parent(parent, node)
insert_init(m, node, parent) ==
  [m EXCEPT ![node].left = NULL, ![node].right = NULL, ![node].isred = 1,
            ![node].parent = parent]

\* Lines 216-226: the cached extremes and the child link.
insert_link(m, node, tree, parent, isleft) ==
  IF parent # NULL
  THEN set_child(IF isleft /\ parent = m[tree].first
                 THEN [m EXCEPT ![tree].first = node]
                 ELSE IF parent = m[tree].last
                 THEN [m EXCEPT ![tree].last = node]
                 ELSE m,
                 node, parent, isleft)
  ELSE [m EXCEPT ![tree].root = node, ![tree].first = node, ![tree].last = node]

\* insert_done without the assignment of line 268.
insert_done_uncolored(r, tree) ==
  [m |-> r.m, ok |-> r.ok, ret |-> NULL, linked |-> TRUE]

\* tree->root->isred = 0; return NULL
insert_done(r, tree) ==
  IF ~r.ok THEN [m |-> r.m, ok |-> FALSE, ret |-> NULL, linked |-> TRUE]
  ELSE [m |-> [r.m EXCEPT ![r.m[tree].root].isred = 0], ok |-> TRUE,
        ret |-> NULL, linked |-> TRUE]

\* tree_insert_item without its `if (item) return item` (line 207).
insert_at_unchecked(m, node, tree, l) ==
  insert_done(
    insert_fixup(insert_link(insert_init(m, node, l.parent), node, tree,
                             l.parent, l.isleft),
                 node, tree),
    tree)

\* l = the result of tree_lookup(node->string, node->index, tree, &parent, &isleft)
insert_at(m, node, tree, l) ==
  IF l.item # NULL THEN [m |-> m, ok |-> TRUE, ret |-> l.item, linked |-> FALSE]
  ELSE insert_done(
         insert_fixup(insert_link(insert_init(m, node, l.parent), node, tree,
                                  l.parent, l.isleft),
                      node, tree),
         tree)

\* Result: the heap, whether the run survived, the returned pointer (the
\* colliding member, or NULL) and whether node was linked.
tree_insert_item(m, node, tree) ==
  IF m[tree].type # cJSON_Object /\ m[tree].type # cJSON_Array
  THEN [m |-> m, ok |-> TRUE, ret |-> NULL, linked |-> FALSE]
  ELSE insert_at(m, node, tree, tree_lookup(m, m[node].string, m[node].index, tree))

\* The calls of tree_rotate_left / tree_rotate_right the uncle-is-black branch
\* issues (lines 239-246, 257-264), in order.
insert_rotate_steps(m, node, parent, leftside) ==
  IF leftside
  THEN (IF node = m[parent].right THEN <<"rotate_left", "rotate_right">>
        ELSE <<"rotate_right">>)
  ELSE (IF node = m[parent].left THEN <<"rotate_right", "rotate_left">>
        ELSE <<"rotate_left">>)

RECURSIVE fixup_steps(_, _, _)
RECURSIVE fixup_steps_again(_, _)

\* What the loop of lines 228-267 does, iteration by iteration: "recolor"
\* for the uncle-is-red branch, the rotations for the other one.
fixup_steps(m, node, tree) ==
  IF m[node].parent = NULL \/ m[m[node].parent].isred # 1 THEN <<>>
  ELSE IF m[m[node].parent].parent = NULL THEN <<>>
  ELSE IF /\ Uncle(m, m[node].parent, m[m[node].parent].parent) # NULL
          /\ m[Uncle(m, m[node].parent, m[m[node].parent].parent)].isred = 1
  THEN <<"recolor">> \o fixup_steps(
         [m EXCEPT ![m[node].parent].isred = 0,
                   ![Uncle(m, m[node].parent, m[m[node].parent].parent)].isred = 0,
                   ![m[m[node].parent].parent].isred = 1],
         m[m[node].parent].parent, tree)
  ELSE insert_rotate_steps(m, node, m[node].parent,
                           m[node].parent = m[m[m[node].parent].parent].left)
       \o fixup_steps_again(
            insert_rotate(m, node, m[node].parent, m[m[node].parent].parent, tree,
                          m[node].parent = m[m[m[node].parent].parent].left),
            tree)

fixup_steps_again(r, tree) ==
  IF ~r.ok THEN <<>> ELSE fixup_steps(r.m, r.node, tree)

insert_steps_at(m, node, tree, l) ==
  IF l.item # NULL THEN <<>>
  ELSE fixup_steps(insert_link(insert_init(m, node, l.parent), node, tree,
                               l.parent, l.isleft),
                   node, tree)

\* The steps of the fixup loop in tree_insert_item(node, tree).
insert_steps(m, node, tree) ==
  IF m[tree].type # cJSON_Object /\ m[tree].type # cJSON_Array THEN <<>>
  ELSE insert_steps_at(m, node, tree, tree_lookup(m, m[node].string, m[node].index, tree))

\* ------------------------------------------------------------------ remove
\* if(node == tree->first) tree->first = child_next(node)   (lines 281-282)
remove_first(m, node, tree) ==
  IF node = m[tree].first THEN [m EXCEPT ![tree].first = child_next(m, node)] ELSE m

\* if(node == tree->last) tree->last = child_next(node)     (lines 283-284)
remove_last(m, node, tree) ==
  IF node = m[tree].last THEN [m EXCEPT ![tree].last = child_next(m, node)] ELSE m

\* The local `next` (lines 286-291).
remove_next(m, node) ==
  IF m[node].left = NULL THEN m[node].right
  ELSE IF m[node].right = NULL THEN m[node].left
  ELSE child_first(m, m[node].right)

\* Lines 293-296.
remove_top(m, node, tree, next) ==
  IF m[node].parent # NULL
  THEN set_child(m, next, m[node].parent, m[m[node].parent].left = node)
  ELSE [m EXCEPT ![tree].root = next]

\* if(node) set_parent(parent, node), and the locals the fixup starts from.
remove_locals(m, node, parent, color) ==
  [m |-> IF node # NULL THEN set_parent(m, parent, node) ELSE m,
   node |-> node, parent |-> parent, color |-> color]

\* The same without `next->left = left` (line 301).
remove_take_left_unlinked(m, node, next, left) ==
  [m EXCEPT ![next].isred = m[node].isred, ![left].parent = next]

\* next->isred = node->isred; next->left = left; set_parent(next, left)
remove_take_left(m, node, next, left) ==
  [m EXCEPT ![next].isred = m[node].isred, ![next].left = left, ![left].parent = next]

\* Lines 305-312, with parent = next->parent and child = next->right.
remove_far(m, node, next, right, parent, child) ==
  [m EXCEPT ![next].parent = m[node].parent, ![parent].left = child,
            ![next].right = right, ![right].parent = next]

\* Lines 298-321 on the heap after remove_top; color is next->isred (two
\* children) or node->isred, read before any of it is overwritten.
remove_splice(m, node, next, left, right) ==
  IF left # NULL /\ right # NULL
  THEN (IF next # right
        THEN remove_locals(
               remove_far(remove_take_left(m, node, next, left), node, next, right,
                          m[next].parent, m[next].right),
               m[next].right, m[next].parent, m[next].isred)
        ELSE remove_locals(
               set_parent(remove_take_left(m, node, next, left), m[node].parent, next),
               m[next].right, next, m[next].isred))
  ELSE remove_locals(m, next, m[node].parent, m[node].isred)

\* tree_remove up to the color test (lines 275-324).
tree_remove_unlink(m, node, tree) ==
  remove_splice(
    remove_top(remove_last(remove_first(m, node, tree), node, tree), node, tree,
               remove_next(m, node)),
    node, remove_next(m, node), m[node].left, m[node].right)

IsBlackOrNull(m, n) == n = NULL \/ m[n].isred = 0

Fix(m, ok, node, parent, again) ==
  [m |-> m, ok |-> ok, node |-> node, parent |-> parent, again |-> again]

\* node = tree->root; break
fixup_break(r, node, parent, tree) ==
  IF ~r.ok THEN Fix(r.m, FALSE, node, parent, FALSE)
  ELSE Fix(r.m, TRUE, r.m[tree].root, parent, FALSE)

\* ---- node == parent->left (lines 337-362)
\* sibling->isred = parent->isred; parent->isred = 0; sibling->right->isred = 0;
\* tree_rotate_left(parent, tree)
fixup_left_far(m, node, parent, sibling, tree) ==
  IF sibling = NULL THEN Fix(m, FALSE, node, parent, FALSE)
  ELSE IF m[sibling].right = NULL
  THEN Fix([m EXCEPT ![sibling].isred = m[parent].isred, ![parent].isred = 0],
           FALSE, node, parent, FALSE)
  ELSE fixup_break(
         tree_rotate_left(
           [m EXCEPT ![sibling].isred = m[parent].isred, ![parent].isred = 0,
                     ![m[sibling].right].isred = 0],
           parent, tree),
         node, parent, tree)

\* sibling = parent->right, after the rotation at the sibling
fixup_left_near_done(r, node, parent, tree) ==
  IF ~r.ok THEN Fix(r.m, FALSE, node, parent, FALSE)
  ELSE fixup_left_far(r.m, node, parent, r.m[parent].right, tree)

\* The two tests on the sibling's children (lines 344-356).
fixup_left_cases(m, node, parent, sibling, tree) ==
  IF sibling = NULL THEN Fix(m, FALSE, node, parent, FALSE)
  ELSE IF IsBlackOrNull(m, m[sibling].left) /\ IsBlackOrNull(m, m[sibling].right)
  THEN Fix([m EXCEPT ![sibling].isred = 1], TRUE, parent, m[parent].parent, TRUE)
  ELSE IF IsBlackOrNull(m, m[sibling].right)
  THEN (IF m[sibling].left = NULL THEN Fix(m, FALSE, node, parent, FALSE)
        ELSE fixup_left_near_done(
               tree_rotate_right(
                 [m EXCEPT ![m[sibling].left].isred = 0, ![sibling].isred = 1],
                 sibling, tree),
               node, parent, tree))
  ELSE fixup_left_far(m, node, parent, sibling, tree)

\* sibling = parent->right, after the rotation for a red sibling
fixup_left_red_done(r, node, parent, tree) ==
  IF ~r.ok THEN Fix(r.m, FALSE, node, parent, FALSE)
  ELSE fixup_left_cases(r.m, node, parent, r.m[parent].right, tree)

remove_fixup_left(m, node, parent, tree) ==
  IF m[parent].right = NULL THEN Fix(m, FALSE, node, parent, FALSE)
  ELSE IF m[m[parent].right].isred = 1
  THEN fixup_left_red_done(
         tree_rotate_left(
           [m EXCEPT ![m[parent].right].isred = 0, ![parent].isred = 1],
           parent, tree),
         node, parent, tree)
  ELSE fixup_left_cases(m, node, parent, m[parent].right, tree)

\* ---- the else branch (lines 364-389); its sibling is read from
\* parent->right at line 364, as the source has it.
fixup_right_far(m, node, parent, sibling, tree) ==
  IF sibling = NULL THEN Fix(m, FALSE, node, parent, FALSE)
  ELSE IF m[sibling].left = NULL
  THEN Fix([m EXCEPT ![sibling].isred = m[parent].isred, ![parent].isred = 0],
           FALSE, node, parent, FALSE)
  ELSE fixup_break(
         tree_rotate_right(
           [m EXCEPT ![sibling].isred = m[parent].isred, ![parent].isred = 0,
                     ![m[sibling].left].isred = 0],
           parent, tree),
         node, parent, tree)

\* sibling = parent->left, after the rotation at the sibling
fixup_right_near_done(r, node, parent, tree) ==
  IF ~r.ok THEN Fix(r.m, FALSE, node, parent, FALSE)
  ELSE fixup_right_far(r.m, node, parent, r.m[parent].left, tree)

fixup_right_cases(m, node, parent, sibling, tree) ==
  IF sibling = NULL THEN Fix(m, FALSE, node, parent, FALSE)
  ELSE IF IsBlackOrNull(m, m[sibling].left) /\ IsBlackOrNull(m, m[sibling].right)
  THEN Fix([m EXCEPT ![sibling].isred = 1], TRUE, parent, m[parent].parent, TRUE)
  ELSE IF IsBlackOrNull(m, m[sibling].left)
  THEN (IF m[sibling].right = NULL THEN Fix(m, FALSE, node, parent, FALSE)
        ELSE fixup_right_near_done(
               tree_rotate_left(
                 [m EXCEPT ![m[sibling].right].isred = 0, ![sibling].isred = 1],
                 sibling, tree),
               node, parent, tree))
  ELSE fixup_right_far(m, node, parent, sibling, tree)

\* sibling = parent->left, after the rotation for a red sibling
fixup_right_red_done(r, node, parent, tree) ==
  IF ~r.ok THEN Fix(r.m, FALSE, node, parent, FALSE)
  ELSE fixup_right_cases(r.m, node, parent, r.m[parent].left, tree)

remove_fixup_right(m, node, parent, tree) ==
  IF m[parent].right = NULL THEN Fix(m, FALSE, node, parent, FALSE)
  ELSE IF m[m[parent].right].isred = 1
  THEN fixup_right_red_done(
         tree_rotate_right(
           [m EXCEPT ![m[parent].right].isred = 0, ![parent].isred = 1],
           parent, tree),
         node, parent, tree)
  ELSE fixup_right_cases(m, node, parent, m[parent].right, tree)

RECURSIVE remove_fixup(_, _, _, _)
RECURSIVE remove_while(_, _)

\* do { ... } while(node->isred == 0)  (lines 333-391)
remove_fixup(m, node, parent, tree) ==
  IF node = m[tree].root THEN Fix(m, TRUE, node, parent, FALSE)
  ELSE IF parent = NULL THEN Fix(m, FALSE, node, parent, FALSE)
  ELSE IF node = m[parent].left
  THEN remove_while(remove_fixup_left(m, node, parent, tree), tree)
  ELSE remove_while(remove_fixup_right(m, node, parent, tree), tree)

\* The loop condition, reached by `continue`.
remove_while(f, tree) ==
  IF ~f.ok \/ ~f.again THEN f
  ELSE IF f.m[f.node].isred = 0 THEN remove_fixup(f.m, f.node, f.parent, tree)
  ELSE f

\* if(node) node->isred = 0   (lines 392-393)
remove_done(f) ==
  IF ~f.ok THEN Crash(f.m)
  ELSE IF f.node # NULL THEN Ok([f.m EXCEPT ![f.node].isred = 0])
  ELSE Ok(f.m)

\* Lines 326-331, then the loop.
remove_balance(u, tree) ==
  IF u.color = 1 THEN Ok(u.m)
  ELSE IF u.node # NULL /\ u.m[u.node].isred = 1
  THEN Ok([u.m EXCEPT ![u.node].isred = 0])
  ELSE remove_done(remove_fixup(u.m, u.node, u.parent, tree))

tree_remove(m, node, tree) ==
  IF m[tree].type # cJSON_Object /\ m[tree].type # cJSON_Array THEN Ok(m)
  ELSE remove_balance(tree_remove_unlink(m, node, tree), tree)

\* ------------------------------------------------------------------ delete
\* cJSON_Delete(c) (lines 405-418).  D.freed: the structs passed to cJSON_free
\* so far; D.strings: the character blocks passed to it; D.uaf: a character
\* block was freed twice, or the recursion entered a struct that is already freed, or
\* entered one twice.
RECURSIVE cJSON_Delete(_, _, _)
RECURSIVE delete_child(_, _, _)

\* delete_strings with the cJSON_IsReference test of line 415 left out.
delete_strings_unguarded(m, c) ==
  (IF m[c].string # NullStr THEN {<<"string", c>>} ELSE {})
  \cup (IF m[c].valuestring # NULL
        THEN {<<"valuestring", m[c].valuestring>>} ELSE {})

\* The character blocks cJSON_Delete frees with c (lines 413-416): its key,
\* and its valuestring unless c is a reference.  A valuestring block goes by
\* the address of the node cJSON_CreateString made it for.
delete_strings(m, c) ==
  (IF m[c].string # NullStr THEN {<<"string", c>>} ELSE {})
  \cup (IF ~m[c].isreference /\ m[c].valuestring # NULL
        THEN {<<"valuestring", m[c].valuestring>>} ELSE {})

delete_free(m, D, c) ==
  [D EXCEPT !.freed = @ \cup {c},
            !.strings = @ \cup delete_strings(m, c),
            !.uaf = @ \/ (delete_strings(m, c) \cap D.strings # {})]

delete_child(m, child, D) ==
  IF child # NULL THEN cJSON_Delete(m, child, D) ELSE D

\* cJSON_Delete without lines 411-412 (the recursion into c->right).
cJSON_Delete_leftward(m, c, D) ==
  IF c \in D.freed \/ c \in D.open THEN [D EXCEPT !.uaf = TRUE]
  ELSE delete_free(m,
         delete_child(m, m[c].left,
           delete_child(m, m[c].root, [D EXCEPT !.open = @ \cup {c}])),
         c)

cJSON_Delete(m, c, D) ==
  IF c \in D.freed \/ c \in D.open THEN [D EXCEPT !.uaf = TRUE]
  ELSE delete_free(m,
         delete_child(m, m[c].right,
           delete_child(m, m[c].left,
             delete_child(m, m[c].root, [D EXCEPT !.open = @ \cup {c}]))),
         c)

DeleteFrom(m, c, fr) ==
  cJSON_Delete(m, c, [freed |-> fr, strings |-> sfreed, open |-> {}, uaf |-> FALSE])

\* ------------------------------------------------------------------ container API
cJSON_GetArraySize(m, array) == m[array].count

cJSON_GetArrayItem(m, array, item) == tree_lookup(m, NullStr, item, array).item

cJSON_GetObjectItem(m, object, string) == tree_lookup(m, string, 0, object).item

cJSON_GetFirstChild(m, object) == obj_first(m, object)

cJSON_GetNextChild(m, object) == child_next(m, object)

\* item->index = array->count++; tree_insert_item(item, array)
cJSON_AddItemToArray(m, array, item) ==
  IF m[array].type # cJSON_Array \/ item = NULL
  THEN [m |-> m, ok |-> TRUE, ret |-> NULL, linked |-> FALSE]
  ELSE tree_insert_item([m EXCEPT ![item].index = m[array].count,
                                  ![array].count = m[array].count + 1],
                        item, array)

\* item->string = cJSON_strdup(string); object->count++; tree_insert_item(item, object)
cJSON_AddItemToObject(m, object, string, item) ==
  IF m[object].type # cJSON_Object \/ item = NULL
  THEN [m |-> m, ok |-> TRUE, ret |-> NULL, linked |-> FALSE]
  ELSE tree_insert_item([m EXCEPT ![item].string = string,
                                  ![object].count = m[object].count + 1],
                        item, object)

Returned(r, item) == [m |-> r.m, ok |-> r.ok, ret |-> item]

\* tree_remove(item, array); return item
detach_array(m, array, item) ==
  IF item = NULL THEN [m |-> m, ok |-> TRUE, ret |-> NULL]
  ELSE Returned(tree_remove(m, item, array), item)

cJSON_DetachItemFromArray(m, array, which) ==
  detach_array(m, array, tree_lookup(m, NullStr, which, array).item)

\* object->count--; return item
detach_count(r, object) ==
  IF ~r.ok THEN r
  ELSE [r EXCEPT !.m = [r.m EXCEPT ![object].count = r.m[object].count - 1]]

\* detach_object with `object->count--` ahead of the `if(!item)` test.
detach_object_counted(m, object, item) ==
  IF item = NULL
  THEN [m |-> [m EXCEPT ![object].count = m[object].count - 1], ok |-> TRUE, ret |-> NULL]
  ELSE detach_count(Returned(tree_remove(m, item, object), item), object)

detach_object(m, object, item) ==
  IF item = NULL THEN [m |-> m, ok |-> TRUE, ret |-> NULL]
  ELSE detach_count(Returned(tree_remove(m, item, object), item), object)

cJSON_DetachItemFromObject(m, object, string) ==
  detach_object(m, object, tree_lookup(m, string, 0, object).item)

\* if(parent) set_child(parent, newitem, isleft)             (lines 962-963)
replace_child(m, newitem, parent, isleft) ==
  IF parent # NULL THEN set_child(m, parent, newitem, isleft) ELSE m

\* if(item->left) set_parent(newitem, item->left); same for right (lines 964-967)
replace_parents(m, newitem, item) ==
  IF m[item].left # NULL /\ m[item].right # NULL
  THEN set_parent(set_parent(m, newitem, m[item].left), newitem, m[item].right)
  ELSE IF m[item].left # NULL THEN set_parent(m, newitem, m[item].left)
  ELSE IF m[item].right # NULL THEN set_parent(m, newitem, m[item].right)
  ELSE m

\* Lines 969-972.
replace_extremes(m, o, newitem, item) ==
  IF m[o].first = item /\ m[o].last = item
  THEN [m EXCEPT ![o].first = newitem, ![o].last = newitem]
  ELSE IF m[o].first = item THEN [m EXCEPT ![o].first = newitem]
  ELSE IF m[o].last = item THEN [m EXCEPT ![o].last = newitem]
  ELSE m

replace_at(m, o, newitem, l) ==
  IF l.item = NULL THEN [m |-> m, item |-> NULL]
  ELSE [m |-> replace_extremes(
                replace_parents(replace_child(m, newitem, l.parent, l.isleft),
                                newitem, l.item),
                o, newitem, l.item),
        item |-> l.item]

\* tree_replace up to, not including, its cJSON_Delete(item) (lines 954-972).
tree_replace(m, o, index, string, newitem) ==
  replace_at(m, o, newitem, tree_lookup(m, string, index, o))

cJSON_ReplaceItemInArray(m, array, which, newitem) ==
  tree_replace(m, array, which, NullStr, newitem)

cJSON_ReplaceItemInObject(m, object, string, newitem) ==
  tree_replace(m, object, 0, string, newitem)

\* for(i=0;i<count;i++) { n=cJSON_Create...; n->index=i; tree_insert_item(n,a); }
\* with the i-th item at address a + 1 + i.
RECURSIVE create_array_loop(_, _, _, _, _)
create_array_loop(m, a, i, count, type) ==
  IF i >= count THEN m
  ELSE create_array_loop(
         tree_insert_item(
           [m EXCEPT ![a + 1 + i] =
              [cJSON_New_Item EXCEPT !.type = type, !.index = i,
                 !.valuestring = IF type = cJSON_String THEN a + 1 + i ELSE NULL]],
           a + 1 + i, a).m,
         a, i + 1, count, type)

cJSON_CreateArray(m, a) == [m EXCEPT ![a] = [cJSON_New_Item EXCEPT !.type = cJSON_Array]]

cJSON_CreateObject(m, a) == [m EXCEPT ![a] = [cJSON_New_Item EXCEPT !.type = cJSON_Object]]

\* a->count = count
set_count(m, a, count) == [m EXCEPT ![a].count = count]

cJSON_CreateIntArray(m, a, count) ==
  set_count(create_array_loop(cJSON_CreateArray(m, a), a, 0, count, cJSON_Number),
            a, count)

cJSON_CreateFloatArray(m, a, count) ==
  set_count(create_array_loop(cJSON_CreateArray(m, a), a, 0, count, cJSON_Number),
            a, count)

cJSON_CreateDoubleArray(m, a, count) ==
  set_count(create_array_loop(cJSON_CreateArray(m, a), a, 0, count, cJSON_Number),
            a, count)

cJSON_CreateStringArray(m, a, count) ==
  create_array_loop(cJSON_CreateArray(m, a), a, 0, count, cJSON_String)

cJSON_CreateNull(m, a) == [m EXCEPT ![a] = [cJSON_New_Item EXCEPT !.type = cJSON_NULL]]

\* item->type = cJSON_String; item->valuestring = cJSON_strdup(string)
cJSON_CreateString(m, a) ==
  [m EXCEPT ![a] = [cJSON_New_Item EXCEPT !.type = cJSON_String, !.valuestring = a]]

\* memcpy(ref, item, sizeof(cJSON)); ref->string = NULL;
\* ref->type |= cJSON_IsReference
create_reference(m, ref, item) ==
  [m EXCEPT ![ref] = [m[item] EXCEPT !.string = NullStr, !.isreference = TRUE]]

cJSON_AddItemReferenceToArray(m, array, ref, item) ==
  cJSON_AddItemToArray(create_reference(m, ref, item), array, ref)

cJSON_AddItemReferenceToObject(m, object, string, ref, item) ==
  cJSON_AddItemToObject(create_reference(m, ref, item), object, string, ref)

\* ------------------------------------------------------------------ state machine
\* ------------------------------------------------------------------ parse, print
\* item->count++ after tree_insert_item(child, item)   (lines 783-784)
parse_counted(r, item) ==
  [m |-> [r.m EXCEPT ![item].count = r.m[item].count + 1], ok |-> r.ok,
   ret |-> r.ret, linked |-> r.linked]

\* One turn of parse_object's loop for a member "key": null (lines 769-784):
\* child->string = child->valuestring; valuestring = NULL; insert; count++.
parse_object_member(m, item, child, key) ==
  parse_counted(tree_insert_item([m EXCEPT ![child].string = key,
                                           ![child].valuestring = NULL],
                                 child, item),
                item)

\* while (child) { entries[i++] = ...; child = child_next(child); }: the value
\* of i when the loop ends (lines 711-718, 815-822), every member printing.
RECURSIVE print_collect(_, _, _)
print_collect(m, child, i) ==
  IF child = NULL THEN i
  ELSE print_collect(m, child_next(m, child), i + 1)

\* print_array: the slots malloc gave entries (line 708), the slots
\* entries[0 .. written-1] the first loop stored into, and the slots
\* entries[0 .. read-1] the compose loop reads (lines 738-748).
print_array(m, item) ==
  [buffers |-> {"entries"},
   capacity |-> m[item].count,
   written |-> print_collect(m, obj_first(m, item), 0),
   read |-> m[item].count]

\* print_object: the same for names and entries (lines 803-805, 815-822,
\* 845-860).
print_object(m, item) ==
  [buffers |-> {"names", "entries"},
   capacity |-> m[item].count,
   written |-> print_collect(m, obj_first(m, item), 0),
   read |-> m[item].count]

\* print_value on a container (lines 665-666).
print_value(m, item) ==
  IF m[item].type = cJSON_Array THEN print_array(m, item)
  ELSE print_object(m, item)

\* What the build can do with the call: a store past the end of the block
\* may go unnoticed or damage the heap, a strcpy from a slot nobody wrote
\* may succeed on what it finds there or fault.
print_outcomes(r) ==
  {"run"} \cup (IF r.written > r.capacity THEN {"corrupt"} ELSE {})
          \cup (IF r.read > r.written THEN {"crashed"} ELSE {})

\* ------------------------------------------------------------------ calls
Min(S) == CHOOSE x \in S : \A y \in S : x <= y

\* The address malloc hands out next: addresses are handed out in increasing
\* order and a freed one is not handed out again (none when the pool is used up).
Unused == DOMAIN mem \ (alloc \cup freed)
Fresh == IF Unused = {} THEN {} ELSE { Min(Unused) }

\* The heap once the caller has made `item` with cJSON_CreateNull().
WithItem(item) == cJSON_CreateNull(mem, item)

\* The last call: its name, the node passed in (or made by it), the pointer
\* it returned (for a replace, the member it displaced) and whether
\* tree_insert_item linked the node.
Op(name, item, ret, linked) ==
  [name |-> name, item |-> item, ret |-> ret, linked |-> linked]

\* Some pointer field of a live container node leads into freed memory.
Dangling(m, live, fr) ==
  \E n \in live : {m[n].root, m[n].first, m[n].last, m[n].left, m[n].right,
                   m[n].parent} \cap fr # {}

Init ==
  /\ mem = [n \in Nodes |-> cJSON_New_Item]
  /\ obj = NULL
  /\ alloc = {}
  /\ freed = {}
  /\ sfreed = {}
  /\ attached = {}
  /\ pc = "run"
  /\ op = Op("init", NULL, NULL, FALSE)

Created(m, a, members, name) ==
  /\ mem' = m
  /\ obj' = a
  /\ alloc' = {a} \cup members
  /\ attached' = members
  /\ op' = Op(name, a, a, FALSE)
  /\ UNCHANGED <<freed, sfreed, pc>>

CreateObject ==
  /\ obj = NULL
  /\ Created(cJSON_CreateObject(mem, 1), 1, {}, "CreateObject")

CreateArray ==
  /\ obj = NULL
  /\ Created(cJSON_CreateArray(mem, 1), 1, {}, "CreateArray")

CreateIntArray ==
  /\ obj = NULL
  /\ \E count \in 0..(Cardinality(DOMAIN mem) - 2) :
       Created(cJSON_CreateIntArray(mem, 1, count), 1, 2..(count + 1),
               "CreateIntArray")

CreateFloatArray ==
  /\ obj = NULL
  /\ \E count \in 0..(Cardinality(DOMAIN mem) - 2) :
       Created(cJSON_CreateFloatArray(mem, 1, count), 1, 2..(count + 1),
               "CreateFloatArray")

CreateDoubleArray ==
  /\ obj = NULL
  /\ \E count \in 0..(Cardinality(DOMAIN mem) - 2) :
       Created(cJSON_CreateDoubleArray(mem, 1, count), 1, 2..(count + 1),
               "CreateDoubleArray")

CreateStringArray ==
  /\ obj = NULL
  /\ \E count \in 0..(Cardinality(DOMAIN mem) - 2) :
       Created(cJSON_CreateStringArray(mem, 1, count), 1, 2..(count + 1),
               "CreateStringArray")

Added(r, name, item) ==
  /\ mem' = r.m
  /\ alloc' = alloc \cup {item}
  /\ attached' = IF r.linked THEN attached \cup {item} ELSE attached
  /\ pc' = IF r.ok THEN "run" ELSE "crashed"
  /\ op' = Op(name, item, r.ret, r.linked)
  /\ UNCHANGED <<obj, freed, sfreed>>

AddItemToObject ==
  /\ pc = "run" /\ obj # NULL
  /\ mem[obj].type = cJSON_Object
  /\ mem[obj].count < Cardinality(DOMAIN mem) - 1
  /\ \E item \in Fresh, string \in Keys :
       Added(cJSON_AddItemToObject(WithItem(item), obj, string, item),
             "AddItemToObject", item)

AddItemToArray ==
  /\ pc = "run" /\ obj # NULL
  /\ mem[obj].type = cJSON_Array
  /\ mem[obj].count < Cardinality(DOMAIN mem) - 1
  /\ \E item \in Fresh :
       Added(cJSON_AddItemToArray(WithItem(item), obj, item),
             "AddItemToArray", item)

Detached(r, name) ==
  /\ mem' = r.m
  /\ attached' = attached \ {r.ret}
  /\ pc' = IF r.ok THEN "run" ELSE "crashed"
  /\ op' = Op(name, r.ret, r.ret, FALSE)
  /\ UNCHANGED <<obj, alloc, freed, sfreed>>

DetachItemFromObject ==
  /\ pc = "run" /\ obj # NULL
  /\ mem[obj].type = cJSON_Object
  /\ \E string \in Probes :
       Detached(cJSON_DetachItemFromObject(mem, obj, string),
             "DetachItemFromObject")

DetachItemFromArray ==
  /\ pc = "run" /\ obj # NULL
  /\ mem[obj].type = cJSON_Array
  /\ \E which \in 0..(Cardinality(DOMAIN mem) - 1) :
       Detached(cJSON_DetachItemFromArray(mem, obj, which),
             "DetachItemFromArray")

\* The effect of cJSON_Delete(c) on the allocator's books.
\* After a cJSON_Delete that freed D.freed: the container cannot be used any
\* further when it, or one of its members, or a block one of them points to,
\* has been freed.
Corrupt(m, D) ==
  \/ D.uaf
  \/ obj \in D.freed
  \/ attached \cap D.freed # {}
  \/ Dangling(m, (attached \cup {obj}) \ D.freed, D.freed)

Deleted(m, c, D, name, ret) ==
  /\ mem' = m
  /\ freed' = D.freed
  /\ sfreed' = D.strings
  /\ alloc' = alloc \ D.freed
  /\ attached' = attached \ D.freed
  /\ pc' = IF Corrupt(m, D) THEN "corrupt" ELSE "run"
  /\ op' = Op(name, c, ret, FALSE)
  /\ UNCHANGED obj

\* cJSON_Delete on the node the detach before it returned, which is what
\* cJSON_DeleteItemFromArray and cJSON_DeleteItemFromObject do (lines 940, 952).
Delete ==
  /\ pc = "run" /\ obj # NULL
  /\ op.name \in {"DetachItemFromObject", "DetachItemFromArray"}
  /\ op.ret # NULL
  /\ Deleted(mem, op.ret, DeleteFrom(mem, op.ret, freed), "Delete", NULL)

ReplacedAndDeleted(m, item, D, name, newitem) ==
  /\ mem' = m
  /\ freed' = D.freed
  /\ sfreed' = D.strings
  /\ alloc' = (alloc \cup {newitem}) \ D.freed
  /\ attached' = attached \ D.freed
  /\ pc' = IF Corrupt(m, D) THEN "corrupt" ELSE "run"
  /\ op' = Op(name, newitem, item, FALSE)
  /\ UNCHANGED obj

\* tree_replace: a miss returns at line 960; a hit ends in cJSON_Delete(item).
Replaced(r, name, newitem) ==
  IF r.item = NULL
  THEN /\ mem' = r.m
       /\ alloc' = alloc \cup {newitem}
       /\ op' = Op(name, newitem, NULL, FALSE)
       /\ UNCHANGED <<obj, freed, sfreed, attached, pc>>
  ELSE ReplacedAndDeleted(r.m, r.item, DeleteFrom(r.m, r.item, freed), name, newitem)

ReplaceItemInObject ==
  /\ pc = "run" /\ obj # NULL
  /\ mem[obj].type = cJSON_Object
  /\ \E newitem \in Fresh, string \in Probes :
       Replaced(cJSON_ReplaceItemInObject(WithItem(newitem), obj, string, newitem),
             "ReplaceItemInObject", newitem)

ReplaceItemInArray ==
  /\ pc = "run" /\ obj # NULL
  /\ mem[obj].type = cJSON_Array
  /\ \E newitem \in Fresh, which \in 0..(Cardinality(DOMAIN mem) - 1) :
       Replaced(cJSON_ReplaceItemInArray(WithItem(newitem), obj, which, newitem),
             "ReplaceItemInArray", newitem)

Next ==
  \/ CreateObject
  \/ CreateArray
  \/ CreateIntArray
  \/ CreateFloatArray
  \/ CreateDoubleArray
  \/ CreateStringArray
  \/ AddItemToObject
  \/ AddItemToArray
  \/ DetachItemFromObject
  \/ DetachItemFromArray
  \/ Delete
  \/ ReplaceItemInObject
  \/ ReplaceItemInArray

Spec == Init /\ [][Next]_vars

\* Runs on one array built by cJSON_CreateIntArray and taken apart by
\* cJSON_DetachItemFromArray, with a larger pool.
InitDeep ==
  /\ mem = [n \in 1..DeepNodes |-> cJSON_New_Item]
  /\ obj = NULL
  /\ alloc = {}
  /\ freed = {}
  /\ sfreed = {}
  /\ attached = {}
  /\ pc = "run"
  /\ op = Op("init", NULL, NULL, FALSE)

NextDeep ==
  \/ CreateIntArray
  \/ DetachItemFromArray

SpecDeep == InitDeep /\ [][NextDeep]_vars

\* ------------------------------------------------------------------ one object, eight keys
\* An Object filled through cJSON_AddItemToObject in any order of keys, each
\* key added once (adds of a key the object holds are part of Spec), and
\* one call of a rotation on any of its nodes that has the child the
\* rotation needs.  Nothing is done to the tree after the rotation.
TreeKeys == {<<97>>, <<98>>, <<99>>, <<100>>, <<101>>, <<102>>, <<103>>, <<104>>}

RotateNames == {"tree_rotate_left", "tree_rotate_right"}

InitTree ==
  /\ mem = [n \in 1..TreeNodes |-> cJSON_New_Item]
  /\ obj = NULL
  /\ alloc = {}
  /\ freed = {}
  /\ sfreed = {}
  /\ attached = {}
  /\ pc = "run"
  /\ op = Op("init", NULL, NULL, FALSE)

\* As Added, with the steps of the fixup loop kept in the record of the call.
TreeAdded(r, item, steps) ==
  /\ mem' = r.m
  /\ alloc' = alloc \cup {item}
  /\ attached' = IF r.linked THEN attached \cup {item} ELSE attached
  /\ pc' = IF r.ok THEN "run" ELSE "crashed"
  /\ op' = [name |-> "AddItemToObject", item |-> item, ret |-> r.ret,
            linked |-> r.linked, steps |-> steps]
  /\ UNCHANGED <<obj, freed, sfreed>>

TreeAddItemToObject ==
  /\ pc = "run" /\ obj # NULL
  /\ op.name \notin RotateNames
  /\ \E item \in Fresh, string \in TreeKeys \ {mem[n].string : n \in attached} :
       TreeAdded(cJSON_AddItemToObject(WithItem(item), obj, string, item), item,
                 insert_steps([WithItem(item) EXCEPT ![item].string = string],
                              item, obj))

\* op.item is the node rotated, op.ret the child that takes its place.
Rotated(r, name, node, child) ==
  /\ mem' = r.m
  /\ pc' = IF r.ok THEN "run" ELSE "crashed"
  /\ op' = Op(name, node, child, FALSE)
  /\ UNCHANGED <<obj, alloc, freed, sfreed, attached>>

RotateLeft ==
  /\ pc = "run" /\ obj # NULL
  /\ op.name \notin RotateNames
  /\ \E node \in Linked(mem, obj) :
       /\ mem[node].right # NULL
       /\ Rotated(tree_rotate_left(mem, node, obj), "tree_rotate_left",
                  node, mem[node].right)

RotateRight ==
  /\ pc = "run" /\ obj # NULL
  /\ op.name \notin RotateNames
  /\ \E node \in Linked(mem, obj) :
       /\ mem[node].left # NULL
       /\ Rotated(tree_rotate_right(mem, node, obj), "tree_rotate_right",
                  node, mem[node].left)

NextTree ==
  \/ CreateObject
  \/ TreeAddItemToObject
  \/ RotateLeft
  \/ RotateRight

SpecTree == InitTree /\ [][NextTree]_vars

\* ------------------------------------------------------------------ build, parse and print
\* The calls of Spec, members read by parse_object, and cJSON_Print of the
\* container at any point.
ParseObjectMember ==
  /\ pc = "run" /\ obj # NULL
  /\ mem[obj].type = cJSON_Object
  /\ mem[obj].count < Cardinality(DOMAIN mem) - 1
  /\ \E item \in Fresh, string \in Keys :
       Added(parse_object_member(WithItem(item), obj, item, string),
             "parse_object", item)

Printed(r, outcome) ==
  /\ pc' = outcome
  /\ op' = [name |-> "cJSON_Print", item |-> obj, ret |-> NULL, linked |-> FALSE,
            buffers |-> r.buffers, capacity |-> r.capacity,
            written |-> r.written, read |-> r.read]
  /\ UNCHANGED <<mem, obj, alloc, freed, sfreed, attached>>

PrintContainer ==
  /\ pc = "run" /\ obj # NULL
  /\ \E outcome \in print_outcomes(print_value(mem, obj)) :
       Printed(print_value(mem, obj), outcome)

NextPrint ==
  \/ Next
  \/ ParseObjectMember
  \/ PrintContainer

SpecPrint == Init /\ [][NextPrint]_vars

\* ---- Runs on several containers: String members, nesting, references.
\* Here attached holds the pairs <<container, member>> of the members
\* tree_insert_item linked, and op.ret the source of a reference.
InitRef ==
  /\ mem = [n \in 1..RefNodes |-> cJSON_New_Item]
  /\ obj = NULL
  /\ alloc = {}
  /\ freed = {}
  /\ sfreed = {}
  /\ attached = {}
  /\ pc = "run"
  /\ op = Op("init", NULL, NULL, FALSE)

RefKeys == { <<107>> }   \* "k"

IsContainer(m, n) == m[n].type = cJSON_Array \/ m[n].type = cJSON_Object

\* The containers a caller can pass to an add: made by cJSON_CreateArray or
\* cJSON_CreateObject and not freed.
Containers == { c \in alloc : IsContainer(mem, c) /\ ~mem[c].isreference }

\* The nodes that are a member of no container.
Roots == { c \in alloc : \A pair \in attached : pair[2] # c }

\* c with everything it owns: its members, and what they own.
RECURSIVE OwnedBy(_, _)
OwnedBy(pairs, c) ==
  {c} \cup UNION { OwnedBy(pairs, pair[2]) : pair \in { q \in pairs : q[1] = c } }

\* cJSON_AddItemToArray or cJSON_AddItemToObject, by the type of c.
AddTo(m, c, string, item) ==
  IF m[c].type = cJSON_Array THEN cJSON_AddItemToArray(m, c, item)
  ELSE cJSON_AddItemToObject(m, c, string, item)

AddReferenceTo(m, c, string, ref, item) ==
  IF m[c].type = cJSON_Array THEN cJSON_AddItemReferenceToArray(m, c, ref, item)
  ELSE cJSON_AddItemReferenceToObject(m, c, string, ref, item)

RefAdded(r, name, c, item, src, new) ==
  /\ mem' = r.m
  /\ alloc' = alloc \cup new
  /\ attached' = IF r.linked THEN attached \cup {<<c, item>>} ELSE attached
  /\ pc' = IF r.ok THEN "run" ELSE "crashed"
  /\ op' = Op(name, item, src, r.linked)
  /\ UNCHANGED <<obj, freed, sfreed>>

RefCreateContainer ==
  /\ pc = "run"
  /\ Cardinality(Containers) < 2
  /\ \E a \in Fresh :
       /\ \/ mem' = cJSON_CreateArray(mem, a)
          \/ mem' = cJSON_CreateObject(mem, a)
       /\ obj' = IF obj = NULL THEN a ELSE obj
       /\ alloc' = alloc \cup {a}
       /\ op' = Op("Create", a, a, FALSE)
       /\ UNCHANGED <<freed, sfreed, attached, pc>>

\* item = cJSON_CreateString(..); cJSON_AddItemToArray / ToObject(c, .., item)
RefAddString ==
  /\ pc = "run"
  /\ \E c \in Containers, item \in Fresh, string \in RefKeys :
       RefAdded(AddTo(cJSON_CreateString(mem, item), c, string, item),
                "AddString", c, item, NULL, {item})

\* A container made earlier becomes a member of another one.
RefAddContainer ==
  /\ pc = "run"
  /\ \E c \in Containers, x \in Containers \cap Roots, string \in RefKeys :
       /\ c \notin OwnedBy(attached, x)
       /\ mem[c].count < Cardinality(DOMAIN mem) - 1
       /\ RefAdded(AddTo(mem, c, string, x), "AddContainer", c, x, NULL, {})

\* cJSON_AddItemReferenceToArray / ToObject(c, .., src)
RefAddReference ==
  /\ pc = "run"
  /\ \E c \in Containers, src \in alloc, ref \in Fresh, string \in RefKeys :
       RefAdded(AddReferenceTo(mem, c, string, ref, src),
                "AddReference", c, ref, src, {ref})

\* After cJSON_Delete(c): a block was freed twice, or a container or member
\* that is still allocated points into freed memory through one of its links.
RefCorrupt(m, D) ==
  \/ D.uaf
  \/ Dangling(m, (Containers \cup { pair[2] : pair \in attached }) \ D.freed,
              D.freed)

RefDeleted(m, c, D) ==
  /\ mem' = m
  /\ freed' = D.freed
  /\ sfreed' = D.strings
  /\ alloc' = alloc \ D.freed
  /\ attached' = { pair \in attached : pair[1] \notin D.freed /\ pair[2] \notin D.freed }
  /\ pc' = IF RefCorrupt(m, D) THEN "corrupt" ELSE "run"
  /\ op' = Op("Delete", c, NULL, FALSE)
  /\ UNCHANGED obj

\* cJSON_Delete(c) on a container that is a member of no other.
RefDelete ==
  /\ pc = "run"
  /\ \E c \in Containers \cap Roots :
       RefDeleted(mem, c, DeleteFrom(mem, c, freed))

NextRef ==
  \/ RefCreateContainer
  \/ RefAddString
  \/ RefAddContainer
  \/ RefAddReference
  \/ RefDelete

SpecRef == InitRef /\ [][NextRef]_vars

\* ------------------------------------------------------------------ observations
\* The nodes linked under n through left and right.
\* The sequence cJSON_GetFirstChild / cJSON_GetNextChild yields, cut after
\* `fuel` nodes.
RECURSIVE Drain(_, _, _)
Drain(m, node, fuel) ==
  IF node = NULL \/ fuel = 0 THEN <<>>
  ELSE <<node>> \o Drain(m, cJSON_GetNextChild(m, node), fuel - 1)

Traversal(m, tree) ==
  Drain(m, cJSON_GetFirstChild(m, tree), Cardinality(DOMAIN m) + 1)

\* Black height of the subtree at n, or -1 when two paths disagree.
RECURSIVE BlackHeight(_, _)
BlackHeight(m, n) ==
  IF n = NULL THEN 1
  ELSE LET l == BlackHeight(m, m[n].left)
           r == BlackHeight(m, m[n].right)
       IN IF l = -1 \/ r = -1 \/ l # r THEN -1
          ELSE l + (IF m[n].isred = 0 THEN 1 ELSE 0)

NoRedRed(m, tree) ==
  \A n \in Linked(m, tree) :
    m[n].isred = 1 =>
      /\ (m[n].left # NULL => m[m[n].left].isred = 0)
      /\ (m[n].right # NULL => m[m[n].right].isred = 0)

ValidRedBlack(m, tree) ==
  /\ (m[tree].root # NULL => m[m[tree].root].isred = 0)
  /\ NoRedRed(m, tree)
  /\ BlackHeight(m, m[tree].root) # -1

\* Lower-case image of a key, character by character.
Fold(s) == [i \in 1..Len(s) |-> IF s[i] >= 65 /\ s[i] <= 90 THEN s[i] + 32 ELSE s[i]]

\* s sorts strictly before t, character codes compared position by position.
RECURSIVE LexLess(_, _)
LexLess(s, t) ==
  IF t = <<>> THEN FALSE
  ELSE IF s = <<>> THEN TRUE
  ELSE IF Head(s) # Head(t) THEN Head(s) < Head(t)
  ELSE LexLess(Tail(s), Tail(t))

\* ------------------------------------------------------------------ properties
CreateNames ==
  {"CreateObject", "CreateArray", "CreateIntArray", "CreateFloatArray",
   "CreateDoubleArray", "CreateStringArray"}
AddNames == {"AddItemToObject", "AddItemToArray"}
DetachNames == {"DetachItemFromObject", "DetachItemFromArray"}
ReplaceNames == {"ReplaceItemInObject", "ReplaceItemInArray"}

\* The container's own lookup: by key for an Object, by ordinal for an Array.
LookupOf(m, tree, key, index) ==
  IF m[tree].type = cJSON_Object THEN cJSON_GetObjectItem(m, tree, key)
  ELSE cJSON_GetArrayItem(m, tree, index)

Range(s) == { s[i] : i \in 1..Len(s) }

\* The sequence s without x.
Without(s, x) == SelectSeq(s, LAMBDA n : n # x)

\* The sequence s with y in the place of x.
Swapped(s, x, y) == [i \in 1..Len(s) |-> IF s[i] = x THEN y ELSE s[i]]

\* C1: after every completed insert or removal the container's tree is a valid
\* red-black tree: black root, no red node with a red child, equal black
\* height on all paths.
C1_ValidRedBlack ==
  (obj # NULL /\ pc = "run") => ValidRedBlack(mem, obj)

\* C2: the traversal of an Object yields its members in ascending
\* case-insensitive key order.
C2_ObjectAscending ==
  (obj # NULL /\ pc = "run" /\ mem[obj].type = cJSON_Object) =>
    \A i \in 1..(Len(Traversal(mem, obj)) - 1) :
      LexLess(Fold(mem[Traversal(mem, obj)[i]].string),
              Fold(mem[Traversal(mem, obj)[i + 1]].string))

\* C3: lookup round trip.  In an Object every case variant of an attached
\* member's key finds exactly that member and a key no attached member has
\* finds nothing; in an Array the ordinal of an attached element finds exactly
\* that element and an ordinal no attached element has finds nothing.
C3_LookupRoundTrip ==
  (obj # NULL /\ pc = "run") =>
    /\ mem[obj].type = cJSON_Object =>
         \A probe \in Probes :
           /\ \A n \in attached :
                Fold(mem[n].string) = Fold(probe) =>
                  cJSON_GetObjectItem(mem, obj, probe) = n
           /\ (\A n \in attached : Fold(mem[n].string) # Fold(probe)) =>
                cJSON_GetObjectItem(mem, obj, probe) = NULL
    /\ mem[obj].type = cJSON_Array =>
         \A which \in 0..Cardinality(DOMAIN mem) :
           /\ \A n \in attached :
                mem[n].index = which => cJSON_GetArrayItem(mem, obj, which) = n
           /\ (\A n \in attached : mem[n].index # which) =>
                cJSON_GetArrayItem(mem, obj, which) = NULL

\* C3 witness: an Object from which a member has been detached, still holding
\* two members, where "B" finds the member added as "b" and the detached key
\* finds nothing.
C3_Witness ==
  /\ pc = "run" /\ obj # NULL /\ mem[obj].type = cJSON_Object
  /\ op.name = "DetachItemFromObject" /\ op.ret # NULL
  /\ Cardinality(attached) >= 2
  /\ cJSON_GetObjectItem(mem, obj, <<66>>) \in attached
  /\ mem[cJSON_GetObjectItem(mem, obj, <<66>>)].string = <<98>>
  /\ cJSON_GetObjectItem(mem, obj, mem[op.ret].string) = NULL

\* C4: after every mutation the container's count equals the number of nodes
\* the traversal yields.
C4_CountIsTraversalLength ==
  (obj # NULL /\ pc = "run" /\ op.name \in CreateNames \cup AddNames \cup DetachNames) =>
    cJSON_GetArraySize(mem, obj) = Len(Traversal(mem, obj))

\* C5: a detach that found its member and ran to completion takes that member
\* out of the traversal and out of lookup; every other member keeps its key
\* and ordinal, is still found by them, and keeps its place in the traversal.
C5_DetachFrame ==
  [][ (op'.name \in DetachNames /\ op'.ret # NULL /\ pc' = "run") =>
        /\ Traversal(mem', obj) = Without(Traversal(mem, obj), op'.ret)
        /\ op'.ret \notin Range(Traversal(mem', obj))
        /\ LookupOf(mem', obj, mem[op'.ret].string, mem[op'.ret].index) = NULL
        /\ \A n \in attached \ {op'.ret} :
             /\ mem'[n].string = mem[n].string
             /\ mem'[n].index = mem[n].index
             /\ LookupOf(mem', obj, mem[n].string, mem[n].index) = n
    ]_vars

\* C5 witness: a completed detach of a member that had two tree children,
\* leaving at least two members behind.
C5_Witness ==
  /\ pc = "run" /\ obj # NULL
  /\ op.name \in DetachNames /\ op.ret # NULL
  /\ mem[op.ret].left # NULL /\ mem[op.ret].right # NULL
  /\ Len(Traversal(mem, obj)) >= 2

\* C6: deleting the node a detach returned frees that node and nothing else
\* (the members here own no subtree of their own).
C6_DeleteFreesOnlyDetached ==
  [][ op'.name = "Delete" => freed' \ freed = {op'.item} ]_vars

\* C7: after a replace that found its member, lookup with the same key or
\* ordinal returns the new node and the traversal shows the new node in the
\* displaced member's place, the other members in their order.
C7_ReplaceInstalls ==
  [][ (op'.name \in ReplaceNames /\ op'.ret # NULL) =>
        /\ LookupOf(mem', obj, mem[op'.ret].string, mem[op'.ret].index) = op'.item
        /\ Traversal(mem', obj) = Swapped(Traversal(mem, obj), op'.ret, op'.item)
    ]_vars

\* C8: cJSON_AddItemToObject with a key that equals an existing member's key
\* case-insensitively leaves root, first, last and every member's links and
\* color as they were; lookup with the key still returns the existing member
\* and the new node is not linked in the tree.
C8_CollisionLeavesTree ==
  [][ (/\ op'.name = "AddItemToObject"
       /\ \E n \in attached : Fold(mem[n].string) = Fold(mem'[op'.item].string)) =>
        /\ mem'[obj].root = mem[obj].root
        /\ mem'[obj].first = mem[obj].first
        /\ mem'[obj].last = mem[obj].last
        /\ \A n \in attached :
             /\ mem'[n].left = mem[n].left
             /\ mem'[n].right = mem[n].right
             /\ mem'[n].parent = mem[n].parent
             /\ mem'[n].isred = mem[n].isred
        /\ \A n \in attached :
             Fold(mem[n].string) = Fold(mem'[op'.item].string) =>
               cJSON_GetObjectItem(mem', obj, mem'[op'.item].string) = n
        /\ op'.item \notin Linked(mem', obj)
        /\ op'.item \notin Range(Traversal(mem', obj))
    ]_vars

\* C8 witness: an Object of two members where the last call added a node under
\* a key that differs from an existing member's key only in case, and was
\* handed that member back.
C8_Witness ==
  /\ pc = "run" /\ obj # NULL
  /\ op.name = "AddItemToObject" /\ ~op.linked
  /\ op.ret \in attached /\ op.ret # op.item
  /\ mem[op.ret].string # mem[op.item].string
  /\ Cardinality(attached) >= 2

\* C9: cJSON_AddItemToArray always attaches its item: afterwards
\* cJSON_GetArrayItem with the ordinal it assigned returns the item.
C9_AppendAttaches ==
  (obj # NULL /\ pc = "run" /\ op.name = "AddItemToArray") =>
    cJSON_GetArrayItem(mem, obj, mem[op.item].index) = op.item

\* C10: on a valid red-black tree, the removal of a linked member runs to
\* completion: it reads no field of an absent sibling or nephew.
C10_RemoveTotal ==
  [][ (/\ pc = "run" /\ obj # NULL /\ ValidRedBlack(mem, obj)
       /\ op'.name \in DetachNames /\ op'.ret # NULL) =>
        pc' # "crashed"
    ]_vars

\* Every reference node in the heap was made from a String node.
StringRefsOnly == \A n \in alloc : mem[n].isreference => mem[n].type = cJSON_String

\* The container whose tree links n.
HolderOf(m, n) == { c \in DOMAIN m : IsContainer(m, c) /\ n \in Linked(m, c) }

\* C11: where every reference was made from a String node, cJSON_Delete of a
\* container frees the valuestring block of exactly the String nodes the
\* container owns and of no reference node, frees each reference node it owns
\* together with the reference's key, and frees no block twice: a block
\* referenced from B is not freed with B, and is freed once with its owner.
C11_ReferenceOwnership ==
  [][ (op'.name = "Delete" /\ pc = "run" /\ StringRefsOnly) =>
        /\ \A p \in DOMAIN mem :
             (<<"valuestring", p>> \in sfreed' \ sfreed) <=>
               (/\ p \in OwnedBy(attached, op'.item)
                /\ mem[p].type = cJSON_String /\ ~mem[p].isreference)
        /\ \A n \in OwnedBy(attached, op'.item) :
             mem[n].isreference =>
               /\ n \in freed' \ freed
               /\ mem[n].string # NullStr => <<"string", n>> \in sfreed' \ sfreed
        /\ ~DeleteFrom(mem, op'.item, freed).uaf
    ]_vars

\* C11 witness: two containers have been deleted; one held a String node, the
\* other a reference to it under a key; the String node's block is freed.
C11_Witness ==
  /\ pc = "run" /\ op.name = "Delete"
  /\ \E r \in freed, p \in freed :
       /\ mem[r].isreference /\ mem[r].type = cJSON_String
       /\ mem[r].valuestring = p /\ ~mem[p].isreference
       /\ mem[r].string # NullStr
       /\ HolderOf(mem, r) # {} /\ HolderOf(mem, p) # {}
       /\ HolderOf(mem, r) \cap HolderOf(mem, p) = {}
       /\ HolderOf(mem, r) \cup HolderOf(mem, p) \subseteq freed
       /\ <<"valuestring", p>> \in sfreed /\ <<"string", r>> \in sfreed

\* C12: the node create_reference makes has no key and no left, right, parent,
\* root, first or last, and cJSON_Delete of it frees no other node.
C12_ReferenceHasNoLinks ==
  [][ op'.name = "AddReference" =>
        /\ create_reference(mem, op'.item, op'.ret)[op'.item].string = NullStr
        /\ create_reference(mem, op'.item, op'.ret)[op'.item].left = NULL
        /\ create_reference(mem, op'.item, op'.ret)[op'.item].right = NULL
        /\ create_reference(mem, op'.item, op'.ret)[op'.item].parent = NULL
        /\ create_reference(mem, op'.item, op'.ret)[op'.item].root = NULL
        /\ create_reference(mem, op'.item, op'.ret)[op'.item].first = NULL
        /\ create_reference(mem, op'.item, op'.ret)[op'.item].last = NULL
        /\ DeleteFrom(create_reference(mem, op'.item, op'.ret), op'.item, freed).freed
             \ freed = {op'.item}
    ]_vars

\* The container's count is the number of nodes its traversal yields, and the
\* i-th of them carries the ordinal i - 1.
Sequential(m, tree) ==
  /\ m[tree].count = Len(Traversal(m, tree))
  /\ \A i \in 1..Len(Traversal(m, tree)) : m[Traversal(m, tree)[i]].index = i - 1

\* C13: an empty array is traversed as the empty sequence, and each
\* cJSON_AddItemToArray on an array whose elements carry 0..n-1 in traversal
\* order gives the new element the ordinal n and puts it last, behind the
\* others in their order: n appends yield the ordinals 0..n-1 in insertion order.
C13_AppendOrder ==
  [][ /\ op'.name = "CreateArray" => Traversal(mem', obj') = <<>> /\ Sequential(mem', obj')
      /\ (op'.name = "AddItemToArray" /\ Sequential(mem, obj)) =>
           /\ mem'[op'.item].index = Len(Traversal(mem, obj))
           /\ Traversal(mem', obj) = Append(Traversal(mem, obj), op'.item)
           /\ Sequential(mem', obj)
    ]_vars

\* C13 witness: an array made empty, after the fourth append of a node made by
\* cJSON_CreateNull, traversed as 0, 1, 2, 3.
C13_Witness ==
  /\ pc = "run" /\ obj # NULL /\ mem[obj].type = cJSON_Array
  /\ op.name = "AddItemToArray" /\ op.linked
  /\ Len(Traversal(mem, obj)) = 4
  /\ Traversal(mem, obj)[4] = op.item
  /\ \A n \in Range(Traversal(mem, obj)) : mem[n].type = cJSON_NULL
  /\ Sequential(mem, obj)

\* The links, color, key, ordinal and count of every node in S are the same
\* in both heaps.
SameNodes(m1, m2, S) == \A n \in S : m1[n] = m2[n]

\* C14: a lookup changes nothing by construction of cJSON_GetObjectItem and
\* cJSON_GetArrayItem (they pass no out-parameters); a detach or a replace
\* whose key or ordinal is not attached returns not-found and leaves the
\* container and every member (root, links, colors, first, last, count) as
\* they were, and on a replace miss the new node is neither attached nor freed.
C14_MissChangesNothing ==
  [][ (op'.name \in DetachNames \cup ReplaceNames /\ op'.ret = NULL) =>
        /\ SameNodes(mem, mem', {obj} \cup attached)
        /\ attached' = attached /\ freed' = freed /\ pc' = pc
        /\ Traversal(mem', obj) = Traversal(mem, obj)
        /\ op'.name \in ReplaceNames =>
             /\ op'.item \notin Linked(mem', obj)
             /\ op'.item \notin freed'
             /\ op'.item \in alloc'
    ]_vars

\* C14 witness: a replace that missed on a container of two members.
C14_Witness ==
  /\ pc = "run" /\ obj # NULL
  /\ op.name \in ReplaceNames /\ op.ret = NULL
  /\ Cardinality(attached) >= 2

\* No reference node has been made: the heap was built by create and add calls.
NoReferences == \A n \in alloc : ~mem[n].isreference

\* The character blocks of the nodes in S: the key of each node that has one
\* and the valuestring of each String node.
StringsOf(m, S) ==
  { <<"string", n>> : n \in { k \in S : m[k].string # NullStr } }
  \cup { <<"valuestring", n>> : n \in { k \in S : m[k].type = cJSON_String } }

Leftmost(m, tree) == IF m[tree].root = NULL THEN NULL ELSE child_first(m, m[tree].root)
Rightmost(m, tree) == IF m[tree].root = NULL THEN NULL ELSE child_last(m, m[tree].root)

\* C16: after every completed insert or removal the cached first is the
\* leftmost node of the tree and the cached last the rightmost one.
C16_FirstLastCache ==
  (obj # NULL /\ pc = "run" /\ op.name \in CreateNames \cup AddNames \cup DetachNames) =>
    /\ mem[obj].first = Leftmost(mem, obj)
    /\ mem[obj].last = Rightmost(mem, obj)

\* C17: a replace that found its member puts the new node in the displaced
\* node's position (same parent, children and color, the root if it was the
\* root), frees the displaced node and nothing else, and leaves no link of
\* the container or of a member pointing at freed memory.
C17_ReplaceIsSwap ==
  [][ (op'.name \in ReplaceNames /\ op'.ret # NULL) =>
        /\ mem'[op'.item].left = mem[op'.ret].left
        /\ mem'[op'.item].right = mem[op'.ret].right
        /\ mem'[op'.item].parent = mem[op'.ret].parent
        /\ mem'[op'.item].isred = mem[op'.ret].isred
        /\ mem'[obj].root = (IF mem[obj].root = op'.ret THEN op'.item ELSE mem[obj].root)
        /\ freed' \ freed = {op'.ret}
        /\ ~Dangling(mem', ({obj, op'.item} \cup attached) \ freed', freed')
    ]_vars

\* The nodes under n, left subtree first, then n, then the right subtree.
RECURSIVE InOrder(_, _)
InOrder(m, n) ==
  IF n = NULL THEN <<>>
  ELSE InOrder(m, m[n].left) \o <<n>> \o InOrder(m, m[n].right)

At(s, i) == IF i >= 1 /\ i <= Len(s) THEN s[i] ELSE NULL

NextPrevAlong(m, s) ==
  \A i \in 1..Len(s) :
    /\ child_next(m, s[i]) = At(s, i + 1)
    /\ child_prev(m, s[i]) = At(s, i - 1)
    /\ child_next(m, s[i]) # NULL => child_prev(m, child_next(m, s[i])) = s[i]

\* C18: after inserts and removals, child_next of every linked node is its
\* in-order successor and child_prev its in-order predecessor (NULL at the
\* two ends), child_prev undoes child_next, and the traversal from first
\* along child_next is exactly the in-order sequence of the nodes under
\* root: finite and each node once. The traversal reads the links and
\* writes none, so starting it again in the same state gives the same result.
C18_NextPrevInOrder ==
  (obj # NULL /\ pc = "run" /\ op.name \in CreateNames \cup AddNames \cup DetachNames) =>
    /\ NextPrevAlong(mem, InOrder(mem, mem[obj].root))
    /\ Traversal(mem, obj) = InOrder(mem, mem[obj].root)

\* A removal has happened and some remaining node without a right child has
\* a successor that is not its parent: child_next climbed two levels.
C18_Witness ==
  /\ obj # NULL /\ pc = "run" /\ op.name \in DetachNames /\ op.ret # NULL
  /\ \E n \in Linked(mem, obj) :
       /\ mem[n].right = NULL
       /\ child_next(mem, n) \notin {NULL, mem[n].parent}

Rotations(steps) == Cardinality({i \in 1..Len(steps) : steps[i] # "recolor"})

\* C19: a tree_insert_item that links a node into a valid red-black tree
\* calls the rotations at most twice, whatever the number of recolorings
\* before them, returns normally and leaves the root black.
C19_InsertRotations ==
  [][ (op'.name = "AddItemToObject" /\ op'.linked /\ ValidRedBlack(mem, obj)) =>
        /\ Rotations(op'.steps) <= 2
        /\ pc' = "run"
        /\ mem'[mem'[obj].root].isred = 0
    ]_vars

\* An insert that recolored once, moved two levels up and then rotated twice.
C19_Witness ==
  /\ pc = "run" /\ op.name = "AddItemToObject" /\ op.linked
  /\ Len(op.steps) = 3
  /\ op.steps[1] = "recolor"
  /\ Rotations(op.steps) = 2
  /\ ValidRedBlack(mem, obj)

\* Every child names as its parent the node that names it as a child, and
\* the root has no parent.
LinksConsistent(m, tree) ==
  /\ (m[tree].root # NULL => m[m[tree].root].parent = NULL)
  /\ \A n \in Linked(m, tree) :
       /\ (m[n].left # NULL => m[m[n].left].parent = n)
       /\ (m[n].right # NULL => m[m[n].right].parent = n)

\* C20: a rotation of a node that has the child it needs keeps the in-order
\* sequence of the tree, keeps parent and child links consistent, makes the
\* child the root when the rotated node was the root, and leaves first,
\* last, count and every color as they were.
C20_RotationFrame ==
  [][ op'.name \in RotateNames =>
        /\ pc' = "run"
        /\ InOrder(mem', mem'[obj].root) = InOrder(mem, mem[obj].root)
        /\ LinksConsistent(mem', obj)
        /\ mem'[op'.ret].parent = mem[op'.item].parent
        /\ mem'[op'.item].parent = op'.ret
        /\ mem'[obj].root = (IF mem[obj].root = op'.item THEN op'.ret ELSE mem[obj].root)
        /\ mem'[obj].first = mem[obj].first
        /\ mem'[obj].last = mem[obj].last
        /\ mem'[obj].count = mem[obj].count
        /\ \A n \in DOMAIN mem : mem'[n].isred = mem[n].isred
    ]_vars

\* The root was rotated to the left and the inner subtree changed sides.
C20_Witness ==
  /\ pc = "run" /\ op.name = "tree_rotate_left"
  /\ mem[obj].root = op.ret
  /\ mem[op.item].right # NULL
  /\ mem[op.item].left # NULL

\* C21: a print of the container stores into entries[i] and names[i] only
\* for i < count, and its later loops read only slots the first loop stored
\* into: the traversal from first has exactly count nodes.
C21_PrintInsideBuffers ==
  op.name = "cJSON_Print" =>
    /\ op.written <= op.capacity
    /\ op.read <= op.written

=============================================================================
